---- MODULE Spec2Model ----
(***************************************************************************)
(* A model of the PRODES dashboard (src/app.py): the cached dataset load   *)
(* (load_data), the map encoder (create_choropleth_map) and the script     *)
(* body that Streamlit re-runs on every interaction (main).                *)
(*                                                                         *)
(* float64 values are fixed-point integers, Scale units per 1.0, carried   *)
(* in a record [nan, v] so that NaN is a value of its own, as in pandas.   *)
(* A data frame is [columns, rows]; a row is [index, data] where index is  *)
(* the pandas index label and data maps a column name to the cell.         *)
(***************************************************************************)
EXTENDS Integers, Sequences, FiniteSets, TLC

\* fixed-point units per 1.0 of a float64 value
Scale == 100
\* largest number of records in the raw dataset
MaxRows == 3
\* largest number of records in a subset handed to the encoder on its own
MaxSubset == 4
\* the sampling threshold of create_choropleth_map (the literal 10000 of
\* app.py lines 104-106), scaled down so that a subset can exceed it
SampleCap == 3

VARIABLES
    raw,                   \* the dataset file: [cols, rows]
    cache,                 \* the st.cache_data entry of load_data
    loads,                 \* how many times the body of load_data has run
    ano_selecionado,       \* the slider's value in the last run
    estados_selecionados,  \* the multiselect's value in the last run
    main_gdf,              \* main's gdf: what load_data returned, as the last run left it
    gdf_filtered,          \* the filtered frame of the last run
    deck,                  \* what create_choropleth_map returned last
    messages,              \* st.error / st.warning calls of the last run
    evolucao_temporal,     \* the by-year series of the last run
    evolucao_por_estado    \* the year x state table of the last run

vars == <<raw, cache, loads, main_gdf, ano_selecionado, estados_selecionados,
          gdf_filtered, deck, messages, evolucao_temporal, evolucao_por_estado>>

----------------------------------------------------------------------------
(* float64 *)

Num(x) == [nan |-> FALSE, v |-> x]
NaN == [nan |-> TRUE, v |-> 0]

\* a comparison with NaN is False
Gt(a, b) == ~a.nan /\ ~b.nan /\ a.v > b.v

\* numpy's float -> int cast truncates toward zero
Trunc(x) == IF x >= 0 THEN (x \div Scale) * Scale ELSE -(((-x) \div Scale) * Scale)

IsInteger(a) == ~a.nan /\ a.v % Scale = 0

----------------------------------------------------------------------------
(* raw cells and pd.to_numeric(errors='coerce') *)

NumCell(x) == [t |-> "num", v |-> x, s |-> <<>>]
StrCell(chars) == [t |-> "str", v |-> 0, s |-> chars]
NoneCell == [t |-> "none", v |-> 0, s |-> <<>>]

Digits == <<"0", "1", "2", "3", "4", "5", "6", "7", "8", "9">>

IsDigit(c) == \E d \in 1..10 : Digits[d] = c

DigitVal(c) == (CHOOSE d \in 1..10 : Digits[d] = c) - 1

RECURSIVE ParseDigits(_, _)
\* the value of a string of decimal digits, acc the value read so far
ParseDigits(chars, acc) ==
    IF chars = <<>> THEN acc
    ELSE ParseDigits(Tail(chars), acc * 10 + DigitVal(Head(chars)))

AllDigits(chars) == chars # <<>> /\ \A i \in 1..Len(chars) : IsDigit(chars[i])

\* a string parses when it is an optionally signed run of digits
ParseStr(chars) ==
    IF AllDigits(chars) THEN Num(ParseDigits(chars, 0) * Scale)
    ELSE IF chars # <<>> /\ Head(chars) = "-" /\ AllDigits(Tail(chars))
         THEN Num(-(ParseDigits(Tail(chars), 0) * Scale))
         ELSE NaN

to_numeric(cell) ==
    IF cell.t = "num" THEN Num(cell.v)
    ELSE IF cell.t = "str" THEN ParseStr(cell.s)
    ELSE NaN

----------------------------------------------------------------------------
(* the raw dataset *)

Point(px, py) == [x |-> px, y |-> py]

RawRow(y, a, st, pr, g) ==
    [year |-> y, area_km |-> a, state |-> st, path_row |-> pr, geometry |-> g]

\* the records a dataset file is made of
RowPool ==
    { RawRow(NumCell(2020 * Scale), NumCell(100), "AC", "p1", Point(-7000, -900)),
      RawRow(NumCell(2020 * Scale), NumCell(100), "AM", "p2", Point(-6000, -300)),
      RawRow(NumCell(2020 * Scale), NumCell(200), "AM", "p1", Point(-6200, -500)),
      RawRow(NumCell(2022 * Scale), NumCell(500), "AC", "p2", Point(-6900, -1000)),
      RawRow(NumCell(2020 * Scale + 50), NumCell(700), "AC", "p1", Point(-7100, -800)),
      RawRow(StrCell(<<"2", "0", "2", "1">>), NumCell(0), "AM", "p2", Point(-6100, -400)),
      RawRow(NoneCell, NumCell(300), "AC", "p1", Point(-7000, -700)),
      RawRow(NumCell(2021 * Scale), StrCell(<<"n", "a">>), "AM", "p1", Point(-6000, -200)),
      RawRow(NumCell(2022 * Scale), StrCell(<<"-", "1">>), "AC", "p2", Point(-6800, -600)) }

AttributeColumns == {"year", "area_km", "state", "path_row"}

RECURSIVE SeqsUpTo(_, _)
\* the sequences over S of length at most n
SeqsUpTo(S, n) ==
    IF n = 0 THEN {<<>>}
    ELSE LET shorter == SeqsUpTo(S, n - 1)
         IN shorter \cup {Append(q, e) : q \in {p \in shorter : Len(p) = n - 1}, e \in S}

\* the files of at most n records with the geometry column and one of the
\* sets of attribute columns
RawFiles(columnSets, n) ==
    { [cols |-> cs \cup {"geometry"},
       rows |-> [i \in 1..Len(rs) |-> [c \in cs \cup {"geometry"} |-> rs[i][c]]]] :
        cs \in columnSets, rs \in SeqsUpTo(RowPool, n) }

\* a file has the geometry column and any of the attribute columns
RawInputs == RawFiles(SUBSET AttributeColumns, MaxRows)

----------------------------------------------------------------------------
(* data frames *)

Frame(cs, rs) == [columns |-> cs, rows |-> rs]

\* gpd.read_parquet / gpd.read_file: a RangeIndex over the records
ReadFile(file) ==
    Frame(file.cols, [i \in 1..Len(file.rows) |-> [index |-> i - 1, data |-> file.rows[i]]])

\* gdf[c] = f(gdf[c]), or a new column c
SetColumn(gdf, c, F(_)) ==
    Frame(gdf.columns \cup {c},
          [i \in 1..Len(gdf.rows) |->
              [index |-> gdf.rows[i].index,
               data |-> [k \in gdf.columns \cup {c} |->
                            IF k = c THEN F(gdf.rows[i].data) ELSE gdf.rows[i].data[k]]]])

\* gdf[mask]
Where(gdf, Keep(_)) == Frame(gdf.columns, SelectSeq(gdf.rows, LAMBDA r : Keep(r.data)))

\* a local name: Body applied to the value bound to it
With(value, Body(_)) == Body(value)

----------------------------------------------------------------------------
(* load_data *)

column_mapping ==
    "year" :> "ano" @@ "area_km" :> "area_km2" @@ "state" :> "uf" @@
    "class_name" :> "classe" @@ "main_class" :> "classe_principal" @@
    "image_date" :> "data_imagem" @@ "satellite" :> "satelite" @@
    "sensor" :> "sensor" @@ "path_row" :> "path_row" @@ "uuid" :> "uuid" @@
    "uid" :> "uid"

\* gdf.rename(columns=existing_mappings)
Rename(gdf) ==
    LET existing == {k \in DOMAIN column_mapping : k \in gdf.columns}
        NewName(c) == IF c \in existing THEN column_mapping[c] ELSE c
        renamed == {NewName(c) : c \in gdf.columns}
    IN Frame(renamed,
             [i \in 1..Len(gdf.rows) |->
                 [index |-> gdf.rows[i].index,
                  data |-> [k \in renamed |->
                               gdf.rows[i].data[CHOOSE c \in gdf.columns : NewName(c) = k]]]])

Message(lvl, txt, count) == [level |-> lvl, what |-> txt, n |-> count]

NoFrame == Frame({}, <<>>)

\* Python's None in place of a frame
None == [ok |-> FALSE, gdf |-> NoFrame]

Some(gdf) == [ok |-> TRUE, gdf |-> gdf]

Returned(val, msgs) == [value |-> val, shown |-> msgs]

\* lines 64-68: coerce ano, drop the rows where it is missing, cast to int
CoerceYear(gdf) ==
    LET coerced == SetColumn(gdf, "ano", LAMBDA d : to_numeric(d["ano"]))
        kept == Where(coerced, LAMBDA d : ~d["ano"].nan)
    IN SetColumn(kept, "ano", LAMBDA d : Num(Trunc(d["ano"].v)))

\* the area filter with >= in place of >
CoerceAreaKeepZero(gdf) ==
    LET coerced == SetColumn(gdf, "area_km2", LAMBDA d : to_numeric(d["area_km2"]))
    IN Where(coerced, LAMBDA d : ~d["area_km2"].nan /\ d["area_km2"].v >= 0)

\* lines 74-76: coerce area_km2, keep the rows where it is > 0
CoerceArea(gdf) ==
    LET coerced == SetColumn(gdf, "area_km2", LAMBDA d : to_numeric(d["area_km2"]))
    IN Where(coerced, LAMBDA d : Gt(d["area_km2"], Num(0)))

\* lines 83-86: the secondary grouping key
WithMunicipio(gdf) ==
    IF "path_row" \in gdf.columns
    THEN Some(SetColumn(gdf, "municipio", LAMBDA d : d["path_row"]))
    ELSE IF "uf" \in gdf.columns
         THEN Some(SetColumn(gdf, "municipio", LAMBDA d : d["uf"]))
         ELSE None   \* gdf['uf'] raises KeyError

\* load_data's body with a missing area column filled in with 1.0
load_data_body_default_area(file) ==
    With(Rename(ReadFile(file)), LAMBDA gdf :
        IF "ano" \notin gdf.columns
        THEN Returned(None, <<Message("error", "year column not found", 0)>>)
        ELSE With(WithMunicipio(
                      IF "area_km2" \in gdf.columns
                      THEN CoerceArea(CoerceYear(gdf))
                      ELSE SetColumn(CoerceYear(gdf), "area_km2", LAMBDA d : Num(Scale))),
                  LAMBDA keyed :
                      IF keyed.ok
                      THEN Returned(keyed, <<>>)
                      ELSE Returned(None, <<Message("error", "load failed", 0)>>)))

\* the body of load_data on the dataset file, lines 35-96
load_data_body(file) ==
    With(Rename(ReadFile(file)), LAMBDA gdf :
        IF "ano" \notin gdf.columns
        THEN Returned(None, <<Message("error", "year column not found", 0)>>)
        ELSE IF "area_km2" \notin gdf.columns
             THEN Returned(None, <<Message("error", "area_km column not found", 0)>>)
             ELSE With(WithMunicipio(CoerceArea(CoerceYear(gdf))), LAMBDA keyed :
                      IF keyed.ok
                      THEN Returned(keyed, <<>>)
                      ELSE Returned(None, <<Message("error", "load failed", 0)>>)))

NoEntry == [filled |-> FALSE, entry |-> Returned(None, <<>>)]

Entry(ret) == [filled |-> TRUE, entry |-> ret]

Called(result, c, n) == [ret |-> result, cache |-> c, ran |-> n]

\* a call of load_data that ignores the cache
load_data_uncached(file, c) ==
    With(load_data_body(file), LAMBDA result : Called(result, Entry(result), 1))

\* @st.cache_data: the body runs on a miss and its result (with the elements
\* it showed) is stored; a hit returns the stored result
load_data(file, c) ==
    IF c.filled
    THEN Called(c.entry, c, 0)
    ELSE With(load_data_body(file), LAMBDA result : Called(result, Entry(result), 1))

----------------------------------------------------------------------------
(* sorting and sums *)

\* s in the order Less, equal elements in their order in s (a stable sort)
StableSort(s, Less(_, _)) ==
    LET n == Len(s)
        before(i) == {j \in 1..n : Less(s[j], s[i]) \/ (~Less(s[i], s[j]) /\ j < i)}
    IN [k \in 1..n |-> s[CHOOSE i \in 1..n : Cardinality(before(i)) = k - 1]]

\* the elements of S in the total order Less
SortSet(S, Less(_, _)) ==
    [k \in 1..Cardinality(S) |->
        CHOOSE x \in S : Cardinality({y \in S : Less(y, x)}) = k - 1]

RECURSIVE SumOf(_)
SumOf(xs) == IF xs = <<>> THEN 0 ELSE Head(xs) + SumOf(Tail(xs))

\* Series.sum() of a float column without NaN
ColumnSum(gdf, c) == Num(SumOf([i \in 1..Len(gdf.rows) |-> gdf.rows[i].data[c].v]))

\* Series.min(): NaN on an empty series
ColumnMin(gdf, c) ==
    IF gdf.rows = <<>> THEN NaN
    ELSE Num(CHOOSE m \in {gdf.rows[i].data[c].v : i \in 1..Len(gdf.rows)} :
                \A i \in 1..Len(gdf.rows) : m <= gdf.rows[i].data[c].v)

\* Series.max(): NaN on an empty series
ColumnMax(gdf, c) ==
    IF gdf.rows = <<>> THEN NaN
    ELSE Num(CHOOSE m \in {gdf.rows[i].data[c].v : i \in 1..Len(gdf.rows)} :
                \A i \in 1..Len(gdf.rows) : m >= gdf.rows[i].data[c].v)

\* Series.mean() of fixed-point values: NaN on an empty series
Mean(xs) == IF xs = <<>> THEN NaN ELSE Num(SumOf(xs) \div Len(xs))

\* the state codes in Python's string order
StringOrder == <<"AC", "AM">>

StrRank(name) == CHOOSE i \in 1..Len(StringOrder) : StringOrder[i] = name

----------------------------------------------------------------------------
(* create_choropleth_map *)

\* nlargest keeping the last of equal areas
nlargest_keep_last(gdf, n) ==
    LET byArea == StableSort(gdf.rows,
                      LAMBDA a, b : a.data["area_km2"].v > b.data["area_km2"].v
                                    \/ (a.data["area_km2"].v = b.data["area_km2"].v
                                        /\ a.index > b.index))
    IN Frame(gdf.columns, SubSeq(byArea, 1, n))

\* gdf.nlargest(n, 'area_km2'): the n rows of largest area, largest first,
\* equal areas in their original order (keep='first')
nlargest(gdf, n) ==
    LET byArea == StableSort(gdf.rows,
                      LAMBDA a, b : a.data["area_km2"].v > b.data["area_km2"].v)
    IN Frame(gdf.columns, SubSeq(byArea, 1, n))

\* p / q (p >= 0, q > 0) rounded to the nearest integer, halves to the even one
RoundHalfEven(p, q) ==
    LET f == p \div q
        r == p % q
    IN IF 2 * r < q THEN f
       ELSE IF 2 * r > q THEN f + 1
       ELSE IF f % 2 = 0 THEN f ELSE f + 1

\* line 119 with the product rounded to the nearest integer
ColorIntensityRounded(area, area_min, area_max) ==
    IF Gt(area_max, area_min)
    THEN RoundHalfEven((area.v - area_min.v) * 255, area_max.v - area_min.v)
    ELSE 128

\* lines 117-119 and 123: astype(int) truncates the product
ColorIntensity(area, area_min, area_max) ==
    IF Gt(area_max, area_min)
    THEN ((area.v - area_min.v) * 255) \div (area_max.v - area_min.v)
    ELSE 128

\* the fallback elevation taken for the base elevation
ElevationLowFallback(area, area_min, area_max) ==
    IF Gt(area_max, area_min)
    THEN ((area.v - area_min.v) * 50000) \div (area_max.v - area_min.v) + 5000
    ELSE 5000

\* lines 117, 121 and 124
Elevation(area, area_min, area_max) ==
    IF Gt(area_max, area_min)
    THEN ((area.v - area_min.v) * 50000) \div (area_max.v - area_min.v) + 5000
    ELSE 10000

\* line 128: [255, int(255 - x * 0.5), 0, 200]
Color(x) == <<255, (2 * 255 - x) \div 2, 0, 200>>

NoDeck == [made |-> FALSE, data |-> NoFrame, latitude |-> NaN, longitude |-> NaN]

\* lines 113-129: the three columns the layer reads
Encoded(gdf_sample, area_min, area_max) ==
    SetColumn(
        SetColumn(
            SetColumn(gdf_sample, "color_intensity",
                LAMBDA d : ColorIntensity(d["area_km2"], area_min, area_max)),
            "elevation", LAMBDA d : Elevation(d["area_km2"], area_min, area_max)),
        "color", LAMBDA d : Color(d["color_intensity"]))

\* lines 132-184: the deck over the encoded frame, centred on the mean of the
\* centroids (a geometry is modelled by its centroid)
Deck(layer) ==
    [made |-> TRUE, data |-> layer,
     latitude |-> Mean([i \in 1..Len(layer.rows) |-> layer.rows[i].data["geometry"].y]),
     longitude |-> Mean([i \in 1..Len(layer.rows) |-> layer.rows[i].data["geometry"].x])]

\* lines 99-184: the deck, and the warning shown when the subset was sampled
create_choropleth_map(gdf_in) ==
    With(IF Len(gdf_in.rows) > SampleCap THEN nlargest(gdf_in, SampleCap) ELSE gdf_in,
         LAMBDA gdf_sample :
             [deck |-> Deck(Encoded(gdf_sample, ColumnMin(gdf_sample, "area_km2"),
                                    ColumnMax(gdf_sample, "area_km2"))),
              shown |-> IF Len(gdf_in.rows) > SampleCap
                        THEN <<Message("warning", "showing a sample", Len(gdf_in.rows))>>
                        ELSE <<>>])

----------------------------------------------------------------------------
(* the aggregates of main *)

YearRow(y, a) == [ano |-> y, area_km2 |-> a]

YearStateRow(y, st, a) == [ano |-> y, uf |-> st, area_km2 |-> a]

\* gdf.groupby('ano')['area_km2'].sum().reset_index(): one row per year,
\* in ascending order of the group key
GroupByYear(gdf) ==
    LET years == {gdf.rows[i].data["ano"].v : i \in 1..Len(gdf.rows)}
        keys == SortSet(years, LAMBDA a, b : a < b)
    IN [k \in 1..Len(keys) |->
           YearRow(Num(keys[k]),
                   ColumnSum(Where(gdf, LAMBDA d : d["ano"].v = keys[k]), "area_km2"))]

\* the by-year series taken over the filtered frame
TrendOfFiltered(gdf, filtered) ==
    StableSort(GroupByYear(filtered), LAMBDA a, b : a.ano.v < b.ano.v)

\* lines 406-411: the by-year series, over the unfiltered frame
Trend(gdf, filtered) ==
    StableSort(GroupByYear(gdf), LAMBDA a, b : a.ano.v < b.ano.v)

\* gdf.groupby(['ano', 'uf'])['area_km2'].sum().reset_index(): one row per
\* (year, state) present, in ascending order of the key pair
GroupByYearState(gdf) ==
    LET pairs == {<<gdf.rows[i].data["ano"].v, gdf.rows[i].data["uf"]>> :
                     i \in 1..Len(gdf.rows)}
        keys == SortSet(pairs,
                    LAMBDA a, b : a[1] < b[1] \/ (a[1] = b[1] /\ StrRank(a[2]) < StrRank(b[2])))
    IN [k \in 1..Len(keys) |->
           YearStateRow(Num(keys[k][1]), keys[k][2],
               ColumnSum(Where(gdf, LAMBDA d : d["ano"].v = keys[k][1] /\ d["uf"] = keys[k][2]),
                         "area_km2"))]

\* the sort with equal rows in the reverse of their order
SortYearAreaTiesReversed(tbl) ==
    StableSort(tbl, LAMBDA a, b :
        \/ a.ano.v < b.ano.v
        \/ (a.ano.v = b.ano.v /\ a.area_km2.v > b.area_km2.v)
        \/ (a.ano.v = b.ano.v /\ a.area_km2.v = b.area_km2.v /\ StrRank(a.uf) > StrRank(b.uf)))

\* line 484: sort_values(['ano', 'area_km2'], ascending=[True, False]); a sort
\* on several columns is a lexsort, which keeps equal rows in their order
SortYearArea(tbl) ==
    StableSort(tbl, LAMBDA a, b : a.ano.v < b.ano.v
                                  \/ (a.ano.v = b.ano.v /\ a.area_km2.v > b.area_km2.v))

\* a widget's value: what the user picked, or nothing picked / not shown
NoYear == [none |-> TRUE, v |-> 0]
Year(y) == [none |-> FALSE, v |-> y]
NoStates == [none |-> TRUE, sel |-> {}]
States(S) == [none |-> FALSE, sel |-> S]

\* a filter that narrows the source frame itself
ApplyFiltersInPlace(gdf, ano, estados) ==
    LET byYear == IF ~ano.none /\ ano.v # 0 /\ "ano" \in gdf.columns
                  THEN Where(gdf, LAMBDA d : d["ano"].v = ano.v * Scale)
                  ELSE gdf
        byState == IF ~estados.none /\ estados.sel # {} /\ "uf" \in gdf.columns
                   THEN Where(byYear, LAMBDA d : d["uf"] \in estados.sel)
                   ELSE byYear
    IN [gdf |-> byState, gdf_filtered |-> byState]

\* lines 247-253: the filters work on a copy; the result carries the source
\* frame as it is after the call
ApplyFilters(gdf, ano, estados) ==
    LET byYear == IF ~ano.none /\ ano.v # 0 /\ "ano" \in gdf.columns
                  THEN Where(gdf, LAMBDA d : d["ano"].v = ano.v * Scale)
                  ELSE gdf
        byState == IF ~estados.none /\ estados.sel # {} /\ "uf" \in gdf.columns
                   THEN Where(byYear, LAMBDA d : d["uf"] \in estados.sel)
                   ELSE byYear
    IN [gdf |-> gdf, gdf_filtered |-> byState]

\* lines 473-485: the year x state table, or nothing without a uf column
EvolucaoPorEstado(gdf, estados) ==
    IF "ano" \in gdf.columns /\ "uf" \in gdf.columns
    THEN LET gdf_para_evolucao ==
                 IF ~estados.none /\ estados.sel # {} /\ "uf" \in gdf.columns
                 THEN Where(gdf, LAMBDA d : d["uf"] \in estados.sel)
                 ELSE gdf
         IN [rendered |-> TRUE, rows |-> SortYearArea(GroupByYearState(gdf_para_evolucao))]
    ELSE [rendered |-> FALSE, rows |-> <<>>]

NotRendered == [rendered |-> FALSE, rows |-> <<>>]

----------------------------------------------------------------------------
(* main: one run of the script *)

Outcome(ld, src, ano, estados, filtered, map, msgs, trend, table) ==
    [cache |-> ld.cache, ran |-> ld.ran, gdf |-> src,
     ano_selecionado |-> ano, estados_selecionados |-> estados,
     gdf_filtered |-> filtered, deck |-> map, messages |-> msgs,
     evolucao_temporal |-> trend, evolucao_por_estado |-> table]

\* the slider's bounds, lines 209-210
AnoMin(gdf) == ColumnMin(gdf, "ano").v \div Scale
AnoMax(gdf) == ColumnMax(gdf, "ano").v \div Scale

\* the multiselect's options, line 226
EstadosDisponiveis(gdf) == {gdf.rows[i].data["uf"] : i \in 1..Len(gdf.rows)}

\* lines 208-222: the slider; a pick of none is the default, the last year
Slider(gdf, anoPick) ==
    IF "ano" \in gdf.columns
    THEN IF anoPick.none THEN Year(AnoMax(gdf)) ELSE anoPick
    ELSE NoYear

\* lines 225-235: the multiselect; a pick of none is the default, no state
Multiselect(gdf, estadosPick) ==
    IF "uf" \in gdf.columns
    THEN IF estadosPick.none THEN States({}) ELSE estadosPick
    ELSE NoStates

\* lines 233-234: the sidebar's error when there is no uf column
Sidebar(gdf) ==
    IF "uf" \in gdf.columns THEN <<>> ELSE <<Message("error", "uf column not found", 0)>>

\* lines 246-544: the filters, the empty-subset return, the map and the charts
Dashboard(ld, ano, estados) ==
    With(ApplyFilters(ld.ret.value.gdf, ano, estados), LAMBDA f :
        IF f.gdf_filtered.rows = <<>>
        THEN Outcome(ld, Some(f.gdf), ano, estados, Some(f.gdf_filtered), NoDeck,
                 ld.ret.shown \o Sidebar(f.gdf)
                     \o <<Message("warning", "no data for the filters", 0)>>,
                 NotRendered, NotRendered)
        ELSE With(create_choropleth_map(f.gdf_filtered), LAMBDA m :
                 Outcome(ld, Some(f.gdf), ano, estados, Some(f.gdf_filtered), m.deck,
                     ld.ret.shown \o Sidebar(f.gdf) \o m.shown,
                     [rendered |-> TRUE, rows |-> Trend(f.gdf, f.gdf_filtered)],
                     EvolucaoPorEstado(f.gdf, estados))))

\* lines 187-544; anoPick and estadosPick are what the user has set the
\* widgets to (none: the widget's default)
main(file, c, anoPick, estadosPick) ==
    With(load_data(file, c), LAMBDA ld :
        IF ~ld.ret.value.ok \/ ld.ret.value.gdf.rows = <<>>
        THEN Outcome(ld, ld.ret.value, NoYear, NoStates, None, NoDeck,
                 ld.ret.shown \o <<Message("error", "could not load the data", 0)>>,
                 NotRendered, NotRendered)
        ELSE Dashboard(ld, Slider(ld.ret.value.gdf, anoPick),
                       Multiselect(ld.ret.value.gdf, estadosPick)))

----------------------------------------------------------------------------
(* the dashboard process *)

Init ==
    /\ raw \in RawInputs
    /\ cache = NoEntry
    /\ loads = 0
    /\ main_gdf = None
    /\ ano_selecionado = NoYear
    /\ estados_selecionados = NoStates
    /\ gdf_filtered = None
    /\ deck = NoDeck
    /\ messages = <<>>
    /\ evolucao_temporal = NotRendered
    /\ evolucao_por_estado = NotRendered

\* Streamlit runs main and shows what it produced
Run(anoPick, estadosPick) ==
    \E out \in {main(raw, cache, anoPick, estadosPick)} :
       /\ cache' = out.cache
       /\ loads' = loads + out.ran
       /\ main_gdf' = out.gdf
       /\ ano_selecionado' = out.ano_selecionado
       /\ estados_selecionados' = out.estados_selecionados
       /\ gdf_filtered' = out.gdf_filtered
       /\ deck' = out.deck
       /\ messages' = out.messages
       /\ evolucao_temporal' = out.evolucao_temporal
       /\ evolucao_por_estado' = out.evolucao_por_estado
       /\ UNCHANGED raw

\* a browser session opens (or reloads) the page: the widgets are at their defaults
NewSession == Run(NoYear, NoStates)

\* the user moves the year slider
SetYear ==
    /\ ~ano_selecionado.none
    /\ \E y \in AnoMin(cache.entry.value.gdf)..AnoMax(cache.entry.value.gdf) :
          /\ y # ano_selecionado.v
          /\ Run(Year(y), estados_selecionados)

\* the user changes the selected states
SetStates ==
    /\ ~estados_selecionados.none
    /\ \E S \in SUBSET EstadosDisponiveis(cache.entry.value.gdf) :
          /\ S # estados_selecionados.sel
          /\ Run(ano_selecionado, States(S))

Next == NewSession \/ SetYear \/ SetStates

Spec == Init /\ [][Next]_vars

----------------------------------------------------------------------------
(* create_choropleth_map on its own, over every frame load_data can return *)

InitEncoder ==
    /\ raw \in RawFiles({AttributeColumns}, MaxSubset)
    /\ cache = NoEntry
    /\ loads = 0
    /\ main_gdf = None
    /\ ano_selecionado = NoYear
    /\ estados_selecionados = NoStates
    /\ gdf_filtered = load_data_body(raw).value
    /\ deck = NoDeck
    /\ messages = <<>>
    /\ evolucao_temporal = NotRendered
    /\ evolucao_por_estado = NotRendered

Encode ==
    /\ gdf_filtered.ok
    /\ ~deck.made
    /\ \E m \in {create_choropleth_map(gdf_filtered.gdf)} :
          /\ deck' = m.deck
          /\ messages' = m.shown
    /\ UNCHANGED <<raw, cache, loads, main_gdf, ano_selecionado, estados_selecionados,
                   gdf_filtered, evolucao_temporal, evolucao_por_estado>>

NextEncoder == Encode

SpecEncoder == InitEncoder /\ [][NextEncoder]_vars

----------------------------------------------------------------------------
(* properties of load_data *)

\* the frame the cache holds, once load_data has returned one
Loaded == cache.filled /\ cache.entry.value.ok

Collection == cache.entry.value.gdf

RowAt(frame, label) == CHOOSE r \in {frame.rows[i] : i \in 1..Len(frame.rows)} : r.index = label

Labels(frame) == {frame.rows[i].index : i \in 1..Len(frame.rows)}

\* C1: when the file has a year and an area column, every row of the frame
\* load_data returns has an integer year and an area > 0; it carries the
\* coerced values of its record, and a record whose year or area is not a
\* number, or whose area is <= 0, has no row
C1_RowsValid ==
    (Loaded /\ {"year", "area_km"} \subseteq raw.cols) =>
        /\ \A i \in 1..Len(Collection.rows) :
              /\ IsInteger(Collection.rows[i].data["ano"])
              /\ ~Collection.rows[i].data["area_km2"].nan
              /\ Collection.rows[i].data["area_km2"].v > 0
        /\ \A k \in 1..Len(raw.rows) :
              LET y == to_numeric(raw.rows[k]["year"])
                  a == to_numeric(raw.rows[k]["area_km"])
              IN IF y.nan \/ a.nan \/ a.v <= 0
                 THEN (k - 1) \notin Labels(Collection)
                 ELSE /\ (k - 1) \in Labels(Collection)
                      /\ RowAt(Collection, k - 1).data["area_km2"] = a
                      /\ RowAt(Collection, k - 1).data["ano"].v <= y.v
                      /\ y.v < RowAt(Collection, k - 1).data["ano"].v + Scale

\* a load that kept a record with a fractional year and dropped one for its
\* year, one for an area that is not a number and one for an area of zero
C1_Witness ==
    /\ Loaded
    /\ Len(Collection.rows) >= 1
    /\ \E k \in 1..Len(raw.rows) :
          /\ (k - 1) \in Labels(Collection)
          /\ ~IsInteger(to_numeric(raw.rows[k]["year"]))
    /\ \E k \in 1..Len(raw.rows) :
          /\ (k - 1) \notin Labels(Collection)
          /\ ~to_numeric(raw.rows[k]["year"]).nan
          /\ to_numeric(raw.rows[k]["area_km"]) = Num(0)
    /\ \E k \in 1..Len(raw.rows) : to_numeric(raw.rows[k]["year"]).nan

\* C2: when the file has no year column or no area column, load_data shows
\* the missing-column error and returns None, whatever the other columns:
\* main gets no frame, filters nothing and renders nothing
C2_MissingColumnFails ==
    (cache.filled /\ ~({"year", "area_km"} \subseteq raw.cols)) =>
        /\ cache.entry.value = None
        /\ cache.entry.shown =
              <<Message("error",
                        IF "year" \notin raw.cols THEN "year column not found"
                        ELSE "area_km column not found", 0)>>
        /\ main_gdf = None
        /\ gdf_filtered = None
        /\ ~deck.made
        /\ ~evolucao_temporal.rendered
        /\ ~evolucao_por_estado.rendered
        /\ messages = cache.entry.shown \o <<Message("error", "could not load the data", 0)>>

\* a load of a file with records, a year, a state and a path_row column but
\* no area column
C2_Witness ==
    /\ cache.filled
    /\ raw.cols = {"year", "state", "path_row", "geometry"}
    /\ Len(raw.rows) >= 2
    /\ cache.entry.value = None

----------------------------------------------------------------------------
(* properties of create_choropleth_map, on its own *)

Subset == gdf_filtered.gdf

AreaOf(row) == row.data["area_km2"].v

\* the bounds of the normalisation: over the features the deck holds
DeckMin == ColumnMin(deck.data, "area_km2").v
DeckMax == ColumnMax(deck.data, "area_km2").v

KeptPositions == {i \in 1..Len(Subset.rows) : Subset.rows[i].index \in Labels(deck.data)}

\* C4: a subset of more than SampleCap features is cut to the SampleCap of
\* largest area, of equal areas the earlier ones, and the warning carries the
\* subset's size; a subset of at most SampleCap features is kept whole and in
\* order, with no warning
C4_Sampling ==
    deck.made =>
        IF Len(Subset.rows) > SampleCap
        THEN /\ Len(deck.data.rows) = SampleCap
             /\ Cardinality(KeptPositions) = SampleCap
             /\ \A k \in KeptPositions : \A d \in (1..Len(Subset.rows)) \ KeptPositions :
                   \/ AreaOf(Subset.rows[k]) > AreaOf(Subset.rows[d])
                   \/ (AreaOf(Subset.rows[k]) = AreaOf(Subset.rows[d]) /\ k < d)
             /\ messages = <<Message("warning", "showing a sample", Len(Subset.rows))>>
        ELSE /\ [i \in 1..Len(deck.data.rows) |-> deck.data.rows[i].index]
                    = [i \in 1..Len(Subset.rows) |-> Subset.rows[i].index]
             /\ messages = <<>>

\* a sampled subset where a kept and a dropped feature have the same area
C4_Witness ==
    /\ deck.made
    /\ Len(Subset.rows) > SampleCap
    /\ \E k \in KeptPositions : \E d \in (1..Len(Subset.rows)) \ KeptPositions :
          AreaOf(Subset.rows[k]) = AreaOf(Subset.rows[d])

\* C7 as stated: on an empty subset create_choropleth_map signals an error
\* and returns no deck
C7_EmptySignalsError ==
    (gdf_filtered.ok /\ Subset.rows = <<>>) => ~deck.made

\* C9: on a non-empty subset whose features all have the same area, every
\* feature gets intensity 128 and elevation 10000
C9_Uniform ==
    (/\ deck.made
     /\ Subset.rows # <<>>
     /\ \A i, j \in 1..Len(Subset.rows) : AreaOf(Subset.rows[i]) = AreaOf(Subset.rows[j])) =>
        /\ deck.data.rows # <<>>
        /\ \A i \in 1..Len(deck.data.rows) :
              /\ deck.data.rows[i].data["color_intensity"] = 128
              /\ deck.data.rows[i].data["elevation"] = 10000

\* a deck over two or more features of one area
C9_Witness ==
    /\ deck.made
    /\ Len(Subset.rows) >= 2
    /\ \A i, j \in 1..Len(Subset.rows) : AreaOf(Subset.rows[i]) = AreaOf(Subset.rows[j])

----------------------------------------------------------------------------
(* properties of main *)

\* the row passes the criteria of the last run
Matches(d) ==
    /\ ano_selecionado.none \/ d["ano"] = Num(ano_selecionado.v * Scale)
    /\ estados_selecionados.none \/ estados_selecionados.sel = {}
           \/ d["uf"] \in estados_selecionados.sel

\* C5: after any run that filtered, main's gdf is still the frame the cache
\* holds, which is still what the load produced, and the filtered frame is
\* the rows of it that pass the criteria, in order: a function of the
\* collection and the criteria alone
C5_FilterPure ==
    gdf_filtered.ok =>
        /\ main_gdf = cache.entry.value
        /\ Collection = load_data_body(raw).value.gdf
        /\ Subset = Frame(Collection.columns,
                          SelectSeq(Collection.rows, LAMBDA r : Matches(r.data)))

\* a run with a year other than the default and some states selected, whose
\* subset is a proper non-empty part of the collection
C5_Witness ==
    /\ gdf_filtered.ok
    /\ Subset.rows # <<>>
    /\ Len(Subset.rows) < Len(Collection.rows)
    /\ estados_selecionados.sel # {}
    /\ ano_selecionado.v # AnoMax(Collection)

YearsOf(frame) == {frame.rows[i].data["ano"].v : i \in 1..Len(frame.rows)}

\* rows is the per-year sum of area over frame, by ascending year
IsYearSums(rows, frame) ==
    /\ Len(rows) = Cardinality(YearsOf(frame))
    /\ \A i \in 1..Len(rows) :
          /\ rows[i].ano.v \in YearsOf(frame)
          /\ rows[i].area_km2.v =
                SumOf([k \in 1..Len(frame.rows) |->
                          IF frame.rows[k].data["ano"].v = rows[i].ano.v
                          THEN AreaOf(frame.rows[k]) ELSE 0])
    /\ \A i \in 1..Len(rows) : \A j \in 1..Len(rows) : i < j => rows[i].ano.v < rows[j].ano.v

\* C6 as stated: whatever the criteria, a run over a loaded collection shows
\* the by-year sums of the whole collection
C6_TrendEveryRun ==
    (Loaded /\ Collection.rows # <<>>) =>
        /\ evolucao_temporal.rendered
        /\ IsYearSums(evolucao_temporal.rows, Collection)

\* C6 amended: a run whose filtered subset is not empty shows the by-year
\* sums of the whole collection, by ascending year, whatever the criteria; a
\* run whose subset is empty shows no series
C6_TrendWhenSubsetNonEmpty ==
    gdf_filtered.ok =>
        IF Subset.rows # <<>>
        THEN /\ evolucao_temporal.rendered
             /\ IsYearSums(evolucao_temporal.rows, Collection)
        ELSE ~evolucao_temporal.rendered

\* a run over a proper part of the collection that shows a series of two years
C6_Witness ==
    /\ gdf_filtered.ok
    /\ Subset.rows # <<>>
    /\ Len(Subset.rows) < Len(Collection.rows)
    /\ evolucao_temporal.rendered
    /\ Len(evolucao_temporal.rows) >= 2

\* C8: the year x state table is by ascending year, within a year by
\* descending summed area, and of two states with the same sum in a year the
\* one of smaller identifier comes first
C8_TableOrder ==
    evolucao_por_estado.rendered =>
        \A i \in 1..(Len(evolucao_por_estado.rows) - 1) :
            LET a == evolucao_por_estado.rows[i]
                b == evolucao_por_estado.rows[i + 1]
            IN \/ a.ano.v < b.ano.v
               \/ /\ a.ano.v = b.ano.v
                  /\ \/ a.area_km2.v > b.area_km2.v
                     \/ (a.area_km2.v = b.area_km2.v /\ StrRank(a.uf) < StrRank(b.uf))

\* a table with two states of equal sum in one year, and two years
C8_Witness ==
    /\ evolucao_por_estado.rendered
    /\ \E i \in 1..(Len(evolucao_por_estado.rows) - 1) :
          /\ evolucao_por_estado.rows[i].ano = evolucao_por_estado.rows[i + 1].ano
          /\ evolucao_por_estado.rows[i].area_km2 = evolucao_por_estado.rows[i + 1].area_km2
    /\ \E i \in 1..(Len(evolucao_por_estado.rows) - 1) :
          evolucao_por_estado.rows[i].ano # evolucao_por_estado.rows[i + 1].ano

\* C10: the body of load_data runs at most once; once the cache is filled it
\* holds what that one run returned, and every run of main gets that value
C10_LoadOnce ==
    /\ loads <= 1
    /\ cache.filled =>
          /\ loads = 1
          /\ cache.entry = load_data_body(raw)
          /\ main_gdf = cache.entry.value

\* a run after the user moved the slider and selected states, with a map shown
C10_Witness ==
    /\ loads = 1
    /\ deck.made
    /\ estados_selecionados.sel # {}
    /\ ano_selecionado.v # AnoMax(Collection)

\* C11 as stated: a file with a year and an area column loads whether or not
\* it has the state and path_row columns, both absent included, and every
\* row's municipio is its path_row when the file has that column, else its
\* state
C11_OptionalColumnsNeverFail ==
    (cache.filled /\ {"year", "area_km"} \subseteq raw.cols) =>
        /\ cache.entry.value.ok
        /\ \A i \in 1..Len(Collection.rows) :
              Collection.rows[i].data["municipio"] =
                  IF "path_row" \in raw.cols
                  THEN raw.rows[Collection.rows[i].index + 1]["path_row"]
                  ELSE raw.rows[Collection.rows[i].index + 1]["state"]

====
